---- MODULE Spec2Model ----
(***************************************************************************)
(* view_tracker: a wall-clock aligned poller (app.py, app_viewer.py) that  *)
(* samples view/like counters of registered videos into a Postgres table   *)
(* and derives gains on read.                                              *)
(*                                                                         *)
(* Time is an integer number of ticks, TicksPerSec ticks to the second, so *)
(* that datetime.now() has a sub-second part.  A timestamp column holds    *)
(* strftime("%Y-%m-%d %H:%M:%S"), i.e. the instant truncated to the second;*)
(* it is modelled as the number of whole seconds since day 0, 00:00:00,    *)
(* which orders exactly as the fixed-width text does.                      *)
(***************************************************************************)
EXTENDS Integers, Sequences, FiniteSets, TLC

VARIABLES
    program,       \* which of the two programs runs: "app" or "app_viewer"
    clock,         \* the wall clock (IST), in ticks
    video_list,    \* table video_list: a set of rows
    views,         \* table views: a set of rows, each with its SERIAL id
    views_id_seq,  \* next value of the SERIAL column views.id
    db_conn,       \* app.py's global connection: "open", "broken", "closed"
    bg,            \* the background threads' positions and locals
    web,           \* the request in progress in the web handler
    flash,         \* the last flash message / response of a request
    ticks,         \* how often the clock has advanced during work
    fails,         \* how often the database connection has been broken
    requests,      \* how many requests the web handler has taken
    horizon,       \* the instant at which the model stops the clock
    removed        \* history: the ids removed and not added since

vars == <<program, clock, video_list, views, views_id_seq, db_conn, bg, web,
          flash, ticks, fails, requests, horizon, removed>>

(***************************************************************************)
(* Bounds of the model.                                                    *)
(***************************************************************************)
TicksPerSec == 2
MaxTicks == 1
MaxFails == 1
MaxRows == 3
MaxRequests == 2
MaxMinutes == 2
LiveMinutes == 11

(***************************************************************************)
(* Program constants.                                                      *)
(***************************************************************************)
PollMinutes == 5
PollSeconds == 300
SouravHour == 8
SouravMinute == 5
ReinitDelay == 10
Cooldown == 60
ViewerMinSleep == 10

None == "None"
\* last_sourav_check = None
NoCheck == -1
default_comparison_id == "YxWlaYCA8MU"
VideoIds == {"v1", "v2"}
AllIds == VideoIds \cup {default_comparison_id}
Titles == {"Sourav Joshi Vlogs", "Other"}
Stats == {[views |-> 100, likes |-> 4]}
Threads == {1, 2}

Max(a, b) == IF a >= b THEN a ELSE b

(***************************************************************************)
(* datetime fields of an instant t (in ticks).                             *)
(***************************************************************************)
SecondsOf(t) == t \div TicksPerSec
HourOf(t) == (SecondsOf(t) \div 3600) % 24
MinuteOf(t) == (SecondsOf(t) \div 60) % 60
DateOf(t) == SecondsOf(t) \div 86400
\* now.second + now.microsecond / 1_000_000, in ticks
SecondsFracOf(t) == t % (60 * TicksPerSec)
\* strftime("%Y-%m-%d %H:%M:%S"): the sub-second part is dropped
Timestamp(t) == SecondsOf(t)

(***************************************************************************)
(* app.py background_tasks, lines 259-267: seconds to the next 5-minute    *)
(* mark, in ticks.                                                         *)
(***************************************************************************)
seconds_to_wait(now) ==
    LET current_minutes == MinuteOf(now)
        current_seconds == SecondsFracOf(now)
        m == PollMinutes - (current_minutes % PollMinutes)
        minutes_to_next == IF m = PollMinutes THEN 0 ELSE m
        w == (minutes_to_next * 60 * TicksPerSec) - current_seconds
    IN  IF w <= 0 THEN w + PollSeconds * TicksPerSec ELSE w

(***************************************************************************)
(* app_viewer.py poll, lines 152-157: the argument of time.sleep, in ticks.*)
(***************************************************************************)
viewer_wait(now) ==
    LET minutes == MinuteOf(now) % PollMinutes
        seconds == SecondsFracOf(now)
        w == (PollMinutes - minutes) * 60 * TicksPerSec - seconds
        wait == IF w <= 0 THEN w + PollSeconds * TicksPerSec ELSE w
    IN  Max(wait, ViewerMinSleep * TicksPerSec)

(***************************************************************************)
(* The two tables.  video_list has PRIMARY KEY (video_id); views has only  *)
(* its SERIAL id as key (app.py init_db).                                  *)
(***************************************************************************)
VideoRow(id, name, tracking, comp) ==
    [video_id |-> id, name |-> name, is_tracking |-> tracking,
     comparison_video_id |-> comp]

ViewRow(n, id, t, stats) ==
    [id |-> n, video_id |-> id, date |-> DateOf(t), timestamp |-> Timestamp(t),
     views |-> stats.views, likes |-> stats.likes]

RegistryIds(vl) == {r.video_id : r \in vl}

\* INSERT INTO video_list ... ON CONFLICT (video_id) DO UPDATE SET name,
\* is_tracking = TRUE, comparison_video_id
upsert_video_insert(vl, id, name, comp) ==
    vl \cup {VideoRow(id, name, TRUE, comp)}

upsert_video(vl, id, name, comp) ==
    {r \in vl : r.video_id # id} \cup {VideoRow(id, name, TRUE, comp)}

\* UPDATE video_list SET is_tracking = FALSE WHERE video_id = id
set_not_tracking(vl, id) ==
    {IF r.video_id = id THEN [r EXCEPT !.is_tracking = FALSE] ELSE r : r \in vl}

\* remove_video: the three DELETEs of one transaction.  comparison_video_id
\* is the one read from the row of id (None when there is no row).
remove_video_list(vl, id) == {r \in vl : r.video_id # id}

remove_video_views(vl, vw, id) ==
    LET result == {r \in vl : r.video_id = id}
        comps == {r.comparison_video_id : r \in result} \ {None}
    IN  {v \in vw : v.video_id # id /\ v.video_id \notin comps}

\* name LIKE '%Sourav Joshi%'
LikeSouravJoshi(name) == name \in {"Sourav Joshi Vlogs"}

\* The UPDATE of background_tasks that stops tracking the previous Sourav
\* Joshi videos: rows other than the new one that have a views row and whose
\* name matches.
stop_previous_sourav(vl, vw, new_id) ==
    LET named == {r.video_id : r \in {x \in vl : LikeSouravJoshi(x.name)}}
        sampled == {v.video_id : v \in {x \in vw : x.video_id \in RegistryIds(vl)
                                                   /\ x.video_id \in named}}
    IN  {IF r.video_id # new_id /\ r.video_id \in sampled
            THEN [r EXCEPT !.is_tracking = FALSE] ELSE r : r \in vl}

(***************************************************************************)
(* store_views.  app.py (lines 143-167): a plain INSERT through the global *)
(* connection with the instant read inside the call; any exception is      *)
(* logged and swallowed.  The database refuses the INSERT when the table   *)
(* holds MaxRows rows already inserted (a store failure).                  *)
(***************************************************************************)
insert_ok(conn, seq) == conn = "open" /\ seq <= MaxRows

store_views_rows(vw, seq, conn, id, stats, now) ==
    IF insert_ok(conn, seq) THEN vw \cup {ViewRow(seq, id, now, stats)} ELSE vw

store_views_seq(seq, conn) == IF insert_ok(conn, seq) THEN seq + 1 ELSE seq

(***************************************************************************)
(* app_viewer.py store_views (lines 67-80): its own connection, and        *)
(* ON CONFLICT (video_id, timestamp) DO NOTHING.                           *)
(***************************************************************************)
viewer_store_views_rows(vw, seq, id, stats, now) ==
    IF seq <= MaxRows
          /\ ~\E v \in vw : v.video_id = id /\ v.timestamp = Timestamp(now)
    THEN vw \cup {ViewRow(seq, id, now, stats)} ELSE vw

\* the SERIAL value is drawn before the conflict is seen
viewer_store_views_seq(seq) == IF seq <= MaxRows THEN seq + 1 ELSE seq

(***************************************************************************)
(* The poll cycle's batch (app.py 273-277, app_viewer.py 161-170).  Rows   *)
(* come back in key order.                                                 *)
(***************************************************************************)
IdOrder == <<"v1", "v2", default_comparison_id>>

RECURSIVE SeqOfIds(_, _)
\* the ids of rows (a set of video_list rows), f applied, in key order,
\* one entry per row
SeqOfIds(rows, k) ==
    IF k > Len(IdOrder) THEN <<>>
    ELSE LET here == {r \in rows : r.video_id = IdOrder[k]}
         IN  (IF here = {} THEN <<>> ELSE <<CHOOSE r \in here : TRUE>>)
             \o SeqOfIds(rows, k + 1)

tracked_pairs(vl) == SeqOfIds({r \in vl : r.is_tracking}, 1)

video_ids_of(pairs) == [k \in 1..Len(pairs) |-> pairs[k].video_id]

comparison_ids_of(pairs) ==
    LET f == [k \in 1..Len(pairs) |-> pairs[k].comparison_video_id]
    IN  SelectSeq(f, LAMBDA c : c # None)

SeqRange(s) == {s[k] : k \in 1..Len(s)}

all_ids_of(pairs) ==
    SeqRange(video_ids_of(pairs)) \cup SeqRange(comparison_ids_of(pairs))

\* stores_of without the second for-loop: comparison ids are not stored
stores_of_primary(pairs, stats_dict) ==
    SelectSeq(video_ids_of(pairs), LAMBDA v : v \in DOMAIN stats_dict)

\* the store_views calls of the two for-loops, in order: every video id the
\* source resolved, then every comparison id the source resolved
stores_of(pairs, stats_dict) ==
    SelectSeq(video_ids_of(pairs) \o comparison_ids_of(pairs),
              LAMBDA v : v \in DOMAIN stats_dict)

(***************************************************************************)
(* External collaborators: the YouTube API and the request's form fields.  *)
(***************************************************************************)
EmptyStats == [x \in {} |-> None]

\* fetch_views(ids): the statistics of any subset of the ids asked for
\* ({} when the call fails)
FetchResults(ids) == UNION {[S -> Stats] : S \in SUBSET ids}

\* fetch_video_title(id): a title (cut to 50 characters) or None
TitleResults == Titles \cup {None}

\* the links a request may carry, as urlparse splits them
Urls ==
    { [link |-> "https://youtu.be/v1", hostname |-> "youtu.be",
       path |-> "/v1", v |-> None],
      [link |-> "https://www.youtube.com/watch?v=v2",
       hostname |-> "www.youtube.com", path |-> "/watch", v |-> "v2"],
      [link |-> "https://youtu.be/", hostname |-> "youtu.be",
       path |-> "/", v |-> None],
      [link |-> "https://example.com/watch?v=v1", hostname |-> "example.com",
       path |-> "/watch", v |-> "v1"] }

Links == {u.link : u \in Urls} \cup {""}

\* "youtu.be" in hostname, "youtube.com" in hostname
HostHas(hostname, part) ==
    \/ part = "youtu.be" /\ hostname \in {"youtu.be"}
    \/ part = "youtube.com" /\ hostname \in {"www.youtube.com"}

\* parsed_url.path[1:]
PathTail(path) ==
    CASE path = "/v1" -> "v1"
      [] path = "/v2" -> "v2"
      [] path = "/watch" -> "watch"
      [] OTHER -> ""

extract_video_id(video_link) ==
    IF video_link = "" THEN None
    ELSE LET parsed_url == CHOOSE u \in Urls : u.link = video_link
         IN  IF HostHas(parsed_url.hostname, "youtu.be")
             THEN (IF PathTail(parsed_url.path) # ""
                   THEN PathTail(parsed_url.path) ELSE None)
             ELSE IF HostHas(parsed_url.hostname, "youtube.com")
             THEN parsed_url.v
             ELSE None

(***************************************************************************)
(* State of the threads.                                                   *)
(***************************************************************************)
Start == (SouravHour * 3600 + (SouravMinute - 1) * 60 + 58) * TicksPerSec
Horizon == Start + MaxMinutes * 60 * TicksPerSec
LiveHorizon == Start + LiveMinutes * 60 * TicksPerSec

\* a background thread's locals; the dead ones are cleared at the loop top.
\* inserted is history: the ids of the rows the thread's last poll cycle
\* inserted.
BgLocals(pc, last) ==
    [pc |-> pc, now |-> 0, last_sourav_check |-> last, new_id |-> None,
     pairs |-> <<>>, all_ids |-> {}, stats_dict |-> EmptyStats, todo |-> <<>>,
     wake |-> 0, inserted |-> {}]

\* start_background_tasks / start_background_polling are called once, at
\* import: one thread
start_background_tasks_twice == {1, 2}

start_background_tasks == {1}

\* existed is history: whether the request's INSERT met a row of its video_id
WebIdle ==
    [pc |-> "idle", title |-> None, todo |-> <<>>, stats |-> EmptyStats,
     existed |-> FALSE]

\* app_viewer.py has no route that changes video_list: the table is what its
\* database holds
ViewerRow(id) ==
    {VideoRow(id, "Other", tr, c) : tr \in BOOLEAN, c \in {None} \cup (VideoIds \ {id})}

ViewerRegistries ==
    {a \cup b : a \in {{}} \cup {{r} : r \in ViewerRow("v1")},
                b \in {{}} \cup {{r} : r \in ViewerRow("v2")}}

InitAt(start, stop) ==
    /\ program \in {"app", "app_viewer"}
    /\ clock = start
    /\ horizon = stop
    /\ video_list \in (IF program = "app" THEN {{}} ELSE ViewerRegistries)
    /\ views = {}
    /\ views_id_seq = 1
    /\ db_conn = "open"
    /\ bg = [t \in Threads |->
               IF t \in start_background_tasks THEN BgLocals("loop", NoCheck)
               ELSE BgLocals("unstarted", NoCheck)]
    /\ web = WebIdle
    /\ flash = None
    /\ ticks = 0
    /\ fails = 0
    /\ requests = 0
    /\ removed = {}

Init == InitAt(Start, Horizon)

(***************************************************************************)
(* The environment: time passes while the threads work, and the database   *)
(* connection of the background thread breaks.                             *)
(***************************************************************************)
Tick ==
    /\ ticks < MaxTicks
    /\ clock + TicksPerSec <= horizon
    /\ clock' = clock + TicksPerSec
    /\ ticks' = ticks + 1
    /\ UNCHANGED <<program, video_list, views, views_id_seq, db_conn, bg, web,
                   flash, fails, removed, requests, horizon>>

DbFail ==
    /\ program = "app"
    /\ fails < MaxFails
    /\ db_conn = "open"
    /\ db_conn' = "broken"
    /\ fails' = fails + 1
    /\ UNCHANGED <<program, clock, video_list, views, views_id_seq, bg, web,
                   flash, ticks, removed, requests, horizon>>

(***************************************************************************)
(* app.py: the request handlers.  One request is served at a time, and its *)
(* own connection (get_new_conn) opens.  Each handler's statements on that *)
(* connection commit together; add_video's two store_views calls go        *)
(* through the global connection, one commit each.                         *)
(***************************************************************************)
\* add_video_error without the check of the comparison video's title
add_video_error_no_comp_title(video_link, comparison_link, title, comp_title, stats) ==
    LET video_id == extract_video_id(video_link)
        comparison_video_id ==
            IF comparison_link = "" THEN None
            ELSE extract_video_id(comparison_link)
    IN  IF video_link = "" THEN "Video link is required."
        ELSE IF video_id = None THEN "Invalid YouTube video link."
        ELSE IF title = None
        THEN "Unable to fetch video title. Check the video link or API key."
        ELSE IF comparison_link # "" /\ comparison_video_id = None
        THEN "Invalid comparison YouTube video link."
        ELSE IF video_id \notin DOMAIN stats
        THEN "Unable to fetch video data. Check the video link or API key."
        ELSE IF comparison_video_id # None /\ comparison_video_id \notin DOMAIN stats
        THEN "Unable to fetch comparison video data. Check the link or API key."
        ELSE None

\* add_video, lines 475-511: the message flashed when the request is
\* refused, None when it goes on to the INSERT
add_video_error(video_link, comparison_link, title, comp_title, stats) ==
    LET video_id == extract_video_id(video_link)
        comparison_video_id ==
            IF comparison_link = "" THEN None
            ELSE extract_video_id(comparison_link)
    IN  IF video_link = "" THEN "Video link is required."
        ELSE IF video_id = None THEN "Invalid YouTube video link."
        ELSE IF title = None
        THEN "Unable to fetch video title. Check the video link or API key."
        ELSE IF comparison_link # "" /\ comparison_video_id = None
        THEN "Invalid comparison YouTube video link."
        ELSE IF comparison_link # "" /\ comp_title = None
        THEN "Unable to fetch comparison video title. Check the link or API key."
        ELSE IF video_id \notin DOMAIN stats
        THEN "Unable to fetch video data. Check the video link or API key."
        ELSE IF comparison_video_id # None /\ comparison_video_id \notin DOMAIN stats
        THEN "Unable to fetch comparison video data. Check the link or API key."
        ELSE None

AddVideo(video_link, comparison_link, title, comp_title, stats) ==
    LET video_id == extract_video_id(video_link)
        comparison_video_id ==
            IF comparison_link = "" THEN None
            ELSE extract_video_id(comparison_link)
        error == add_video_error(video_link, comparison_link, title, comp_title,
                                 stats)
    IN  /\ program = "app"
        /\ web.pc = "idle"
        /\ requests < MaxRequests
        /\ requests' = requests + 1
        /\ IF error # None
           THEN /\ flash' = error
                /\ UNCHANGED <<video_list, web, removed>>
           ELSE /\ video_list' = upsert_video(video_list, video_id, title,
                                              comparison_video_id)
                /\ web' = [pc |-> "add_store",
                           title |-> title,
                           todo |-> <<video_id>> \o
                                    (IF comparison_video_id # None
                                     THEN <<comparison_video_id>> ELSE <<>>),
                           stats |-> stats,
                           existed |-> video_id \in RegistryIds(video_list)]
                /\ removed' = removed \ {video_id}
                /\ UNCHANGED flash
        /\ UNCHANGED <<program, clock, views, views_id_seq, db_conn, bg, ticks,
                       fails, horizon>>

\* add_video, lines 523-528: the next store_views call; after the last one
\* the success message
AddStore ==
    /\ program = "app"
    /\ web.pc = "add_store"
    /\ LET id == Head(web.todo)
       IN  /\ views' = store_views_rows(views, views_id_seq, db_conn, id,
                                        web.stats[id], clock)
           /\ views_id_seq' = store_views_seq(views_id_seq, db_conn)
    /\ IF Len(web.todo) = 1
       THEN /\ web' = WebIdle
            /\ flash' = "Video added successfully."
       ELSE /\ web' = [web EXCEPT !.todo = Tail(web.todo)]
            /\ UNCHANGED flash
    /\ UNCHANGED <<program, clock, video_list, db_conn, bg, ticks, fails,
                   removed, requests, horizon>>

\* stop_tracking, lines 536-549
StopTracking(video_id) ==
    /\ program = "app"
    /\ web.pc = "idle"
    /\ requests < MaxRequests
    /\ requests' = requests + 1
    /\ video_list' = set_not_tracking(video_list, video_id)
    /\ flash' = "Stopped tracking video successfully."
    /\ UNCHANGED <<program, clock, views, views_id_seq, db_conn, bg, web,
                   ticks, fails, removed, horizon>>

\* remove_video, lines 553-573
RemoveVideo(video_id) ==
    /\ program = "app"
    /\ web.pc = "idle"
    /\ requests < MaxRequests
    /\ requests' = requests + 1
    /\ video_list' = remove_video_list(video_list, video_id)
    /\ views' = remove_video_views(video_list, views, video_id)
    /\ flash' = "Video removed successfully."
    /\ removed' = IF video_id \in RegistryIds(video_list)
                  THEN removed \cup {video_id} ELSE removed
    /\ UNCHANGED <<program, clock, views_id_seq, db_conn, bg, web, ticks,
                   fails, horizon>>

(***************************************************************************)
(* app.py: background_tasks, one step per blocking call.                   *)
(***************************************************************************)
\* fetch_latest_sourav_joshi_video: nothing, or the channel's latest video
\* with its title and whether it was published on the current date
LatestResults ==
    {[video_id |-> None, title |-> None, today |-> FALSE]}
    \cup {[video_id |-> "v1", title |-> ti, today |-> b] :
            ti \in Titles, b \in BOOLEAN}

\* lines 259-269: time.sleep(seconds_to_wait), the wait computed from the
\* loop's own reading of the clock
Sleeping(t, last) ==
    [BgLocals("sleeping", last) EXCEPT
        !.now = bg[t].now,
        !.wake = clock + seconds_to_wait(bg[t].now)]

\* line 219
sourav_check_due(now, last) ==
    /\ HourOf(now) = SouravHour
    /\ MinuteOf(now) = SouravMinute
    /\ (last = NoCheck \/ DateOf(last) # DateOf(now))

\* lines 213-219 and, when no check is due, 259-269
LoopTop(t) ==
    /\ program = "app"
    /\ bg[t].pc = "loop"
    /\ bg' = [bg EXCEPT ![t] =
               IF sourav_check_due(clock, bg[t].last_sourav_check)
               THEN [BgLocals("sourav_check", bg[t].last_sourav_check) EXCEPT
                        !.now = clock]
               ELSE [BgLocals("sleeping", bg[t].last_sourav_check) EXCEPT
                        !.now = clock,
                        !.wake = clock + seconds_to_wait(clock)]]
    /\ UNCHANGED <<program, clock, video_list, views, views_id_seq, db_conn,
                   web, flash, ticks, fails, removed, requests, horizon>>

\* lines 220-251 and 257
SouravCheck(t, result) ==
    /\ program = "app"
    /\ bg[t].pc = "sourav_check"
    /\ IF result.video_id = None \/ ~result.today
       THEN /\ bg' = [bg EXCEPT ![t] = Sleeping(t, bg[t].now)]
            /\ UNCHANGED <<video_list, removed>>
       ELSE IF db_conn # "open"
       THEN /\ bg' = [bg EXCEPT ![t].pc = "except"]
            /\ UNCHANGED <<video_list, removed>>
       ELSE IF result.video_id \in RegistryIds(video_list)
       THEN /\ bg' = [bg EXCEPT ![t] = Sleeping(t, bg[t].now)]
            /\ UNCHANGED <<video_list, removed>>
       ELSE /\ video_list' =
                 upsert_video(
                     stop_previous_sourav(video_list, views, result.video_id),
                     result.video_id, result.title, default_comparison_id)
            /\ removed' = removed \ {result.video_id}
            /\ bg' = [bg EXCEPT ![t].pc = "sourav_fetch",
                                ![t].new_id = result.video_id]
    /\ UNCHANGED <<program, clock, views, views_id_seq, db_conn, web, flash,
                   ticks, fails, requests, horizon>>

\* line 252, and lines 257-269 when nothing is to be stored
SouravFetch(t, stats) ==
    /\ program = "app"
    /\ bg[t].pc = "sourav_fetch"
    /\ LET todo == SelectSeq(<<bg[t].new_id, default_comparison_id>>,
                             LAMBDA v : v \in DOMAIN stats)
       IN  bg' = [bg EXCEPT ![t] =
                    IF todo = <<>> THEN Sleeping(t, bg[t].now)
                    ELSE [bg[t] EXCEPT !.pc = "sourav_store",
                                       !.stats_dict = stats, !.todo = todo]]
    /\ UNCHANGED <<program, clock, video_list, views, views_id_seq, db_conn,
                   web, flash, ticks, fails, removed, requests, horizon>>

\* lines 253-269: the next store_views call of the auto-add
SouravStore(t) ==
    /\ program = "app"
    /\ bg[t].pc = "sourav_store"
    /\ LET id == Head(bg[t].todo)
       IN  /\ views' = store_views_rows(views, views_id_seq, db_conn, id,
                                        bg[t].stats_dict[id], clock)
           /\ views_id_seq' = store_views_seq(views_id_seq, db_conn)
    /\ bg' = [bg EXCEPT ![t] =
                IF Len(bg[t].todo) = 1 THEN Sleeping(t, bg[t].now)
                ELSE [bg[t] EXCEPT !.todo = Tail(bg[t].todo)]]
    /\ UNCHANGED <<program, clock, video_list, db_conn, web, flash, ticks,
                   fails, removed, requests, horizon>>

\* time.sleep returns: not before the wake time
Wake(t) ==
    /\ bg[t].pc = "sleeping"
    /\ Max(clock, bg[t].wake) <= horizon
    /\ clock' = Max(clock, bg[t].wake)
    /\ bg' = [bg EXCEPT ![t].pc = "read"]
    /\ UNCHANGED <<program, video_list, views, views_id_seq, db_conn, web,
                   flash, ticks, fails, requests, removed, horizon>>

\* the columns the SELECT of line 273 returns
pair_of(r) ==
    [video_id |-> r.video_id, comparison_video_id |-> r.comparison_video_id]

video_pairs(vl) ==
    LET rows == tracked_pairs(vl)
    IN  [k \in 1..Len(rows) |-> pair_of(rows[k])]

\* lines 272-280
ReadRegistry(t) ==
    /\ program = "app"
    /\ bg[t].pc = "read"
    /\ bg' = [bg EXCEPT ![t] =
               IF db_conn # "open" THEN [bg[t] EXCEPT !.pc = "except"]
               ELSE IF all_ids_of(video_pairs(video_list)) = {}
               THEN BgLocals("loop", bg[t].last_sourav_check)
               ELSE [bg[t] EXCEPT !.pc = "fetch",
                                  !.pairs = video_pairs(video_list),
                                  !.all_ids = all_ids_of(video_pairs(video_list))]]
    /\ UNCHANGED <<program, clock, video_list, views, views_id_seq, db_conn,
                   web, flash, ticks, fails, removed, requests, horizon>>

\* line 282
FetchStats(t, stats) ==
    /\ program = "app"
    /\ bg[t].pc = "fetch"
    /\ bg' = [bg EXCEPT ![t] =
               IF stores_of(bg[t].pairs, stats) = <<>>
               THEN BgLocals("loop", bg[t].last_sourav_check)
               ELSE [bg[t] EXCEPT !.pc = "store", !.stats_dict = stats,
                                  !.todo = stores_of(bg[t].pairs, stats)]]
    /\ UNCHANGED <<program, clock, video_list, views, views_id_seq, db_conn,
                   web, flash, ticks, fails, removed, requests, horizon>>

\* lines 283-288: the next store_views call of the cycle
StoreStats(t) ==
    /\ program = "app"
    /\ bg[t].pc = "store"
    /\ LET id == Head(bg[t].todo)
       IN  /\ views' = store_views_rows(views, views_id_seq, db_conn, id,
                                        bg[t].stats_dict[id], clock)
           /\ views_id_seq' = store_views_seq(views_id_seq, db_conn)
    /\ LET inserted == IF insert_ok(db_conn, views_id_seq)
                        THEN bg[t].inserted \cup {views_id_seq}
                        ELSE bg[t].inserted
       IN  bg' = [bg EXCEPT ![t] =
                    IF Len(bg[t].todo) = 1
                    THEN [BgLocals("loop", bg[t].last_sourav_check) EXCEPT
                             !.inserted = inserted]
                    ELSE [bg[t] EXCEPT !.todo = Tail(bg[t].todo),
                                       !.inserted = inserted]]
    /\ UNCHANGED <<program, clock, video_list, db_conn, web, flash, ticks,
                   fails, removed, requests, horizon>>

\* Except that goes back to the loop top at once
Except_no_backoff(t) ==
    /\ program = "app"
    /\ bg[t].pc = "except"
    /\ db_conn' = "closed"
    /\ bg' = [bg EXCEPT ![t] = BgLocals("loop", bg[t].last_sourav_check)]
    /\ UNCHANGED <<program, clock, video_list, views, views_id_seq, web, flash,
                   ticks, fails, removed, requests, horizon>>

\* lines 289-298: the connection is closed, time.sleep(10) begins
Except(t) ==
    /\ program = "app"
    /\ bg[t].pc = "except"
    /\ db_conn' = "closed"
    /\ bg' = [bg EXCEPT ![t] =
               [BgLocals("reinit", bg[t].last_sourav_check) EXCEPT
                   !.wake = clock + ReinitDelay * TicksPerSec]]
    /\ UNCHANGED <<program, clock, video_list, views, views_id_seq, web, flash,
                   ticks, fails, removed, requests, horizon>>

\* Reinit with the failure of init_db() escaping the handler: the thread ends
Reinit_raises(t, ok) ==
    /\ program = "app"
    /\ bg[t].pc = "reinit"
    /\ Max(clock, bg[t].wake) <= horizon
    /\ clock' = Max(clock, bg[t].wake)
    /\ db_conn' = IF ok THEN "open" ELSE db_conn
    /\ bg' = [bg EXCEPT ![t].pc = IF ok THEN "cooldown" ELSE "unstarted",
                        ![t].wake = clock' + Cooldown * TicksPerSec]
    /\ UNCHANGED <<program, video_list, views, views_id_seq, web, flash, ticks,
                   fails, removed, requests, horizon>>

\* lines 298-303: the sleep ends, init_db() opens a new connection or fails
\* and leaves db_conn as it is, time.sleep(60) begins
Reinit(t, ok) ==
    /\ program = "app"
    /\ bg[t].pc = "reinit"
    /\ Max(clock, bg[t].wake) <= horizon
    /\ clock' = Max(clock, bg[t].wake)
    /\ db_conn' = IF ok THEN "open" ELSE db_conn
    /\ bg' = [bg EXCEPT ![t].pc = "cooldown",
                        ![t].wake = clock' + Cooldown * TicksPerSec]
    /\ UNCHANGED <<program, video_list, views, views_id_seq, web, flash, ticks,
                   fails, removed, requests, horizon>>

\* line 303: time.sleep(60) returns, the loop starts over
CooldownEnd(t) ==
    /\ bg[t].pc = "cooldown"
    /\ Max(clock, bg[t].wake) <= horizon
    /\ clock' = Max(clock, bg[t].wake)
    /\ bg' = [bg EXCEPT ![t] = BgLocals("loop", bg[t].last_sourav_check)]
    /\ UNCHANGED <<program, video_list, views, views_id_seq, db_conn, web,
                   flash, ticks, fails, requests, removed, horizon>>

(***************************************************************************)
(* app_viewer.py: poll, one step per blocking call.  Every database use    *)
(* opens its own connection (get_db_cursor).                               *)
(***************************************************************************)
\* lines 150-157
ViewerLoop(t) ==
    /\ program = "app_viewer"
    /\ bg[t].pc = "loop"
    /\ bg' = [bg EXCEPT ![t] =
               [BgLocals("sleeping", NoCheck) EXCEPT
                   !.now = clock, !.wake = clock + viewer_wait(clock)]]
    /\ UNCHANGED <<program, clock, video_list, views, views_id_seq, db_conn,
                   web, flash, ticks, fails, removed, requests, horizon>>

\* lines 160-172: the connection may fail, which raises into poll's handler
ViewerRead(t, conn_ok) ==
    /\ program = "app_viewer"
    /\ bg[t].pc = "read"
    /\ conn_ok \/ fails < MaxFails
    /\ fails' = IF conn_ok THEN fails ELSE fails + 1
    /\ bg' = [bg EXCEPT ![t] =
               IF ~conn_ok THEN [bg[t] EXCEPT !.pc = "except"]
               ELSE IF all_ids_of(video_pairs(video_list)) = {}
               THEN BgLocals("loop", NoCheck)
               ELSE [bg[t] EXCEPT !.pc = "fetch",
                                  !.pairs = video_pairs(video_list),
                                  !.all_ids = all_ids_of(video_pairs(video_list))]]
    /\ UNCHANGED <<program, clock, video_list, views, views_id_seq, db_conn,
                   web, flash, ticks, removed, requests, horizon>>

\* line 173: fetch_views catches HttpError only; any other error of the call
\* raises into poll's handler
ViewerFetch(t, stats, raised) ==
    /\ program = "app_viewer"
    /\ bg[t].pc = "fetch"
    /\ bg' = [bg EXCEPT ![t] =
               IF raised THEN [bg[t] EXCEPT !.pc = "except"]
               ELSE IF stores_of(bg[t].pairs, stats) = <<>>
               THEN BgLocals("loop", NoCheck)
               ELSE [bg[t] EXCEPT !.pc = "store", !.stats_dict = stats,
                                  !.todo = stores_of(bg[t].pairs, stats)]]
    /\ UNCHANGED <<program, clock, video_list, views, views_id_seq, db_conn,
                   web, flash, ticks, fails, removed, requests, horizon>>

\* lines 174-179: the next store_views call of the cycle
ViewerStore(t) ==
    /\ program = "app_viewer"
    /\ bg[t].pc = "store"
    /\ LET id == Head(bg[t].todo)
           rows == viewer_store_views_rows(views, views_id_seq, id,
                                           bg[t].stats_dict[id], clock)
           inserted == IF rows # views
                       THEN bg[t].inserted \cup {views_id_seq}
                       ELSE bg[t].inserted
       IN  /\ views' = rows
           /\ views_id_seq' = viewer_store_views_seq(views_id_seq)
           /\ bg' = [bg EXCEPT ![t] =
                        IF Len(bg[t].todo) = 1
                        THEN [BgLocals("loop", NoCheck) EXCEPT
                                 !.inserted = inserted]
                        ELSE [bg[t] EXCEPT !.todo = Tail(bg[t].todo),
                                           !.inserted = inserted]]
    /\ UNCHANGED <<program, clock, video_list, db_conn, web, flash, ticks,
                   fails, removed, requests, horizon>>

\* lines 181-183: time.sleep(60) begins
ViewerExcept(t) ==
    /\ program = "app_viewer"
    /\ bg[t].pc = "except"
    /\ bg' = [bg EXCEPT ![t] =
               [BgLocals("cooldown", NoCheck) EXCEPT
                   !.wake = clock + Cooldown * TicksPerSec]]
    /\ UNCHANGED <<program, clock, video_list, views, views_id_seq, db_conn,
                   web, flash, ticks, fails, removed, requests, horizon>>

(***************************************************************************)
(* The program.                                                            *)
(***************************************************************************)
\* The inputs of add_video; one that the handler would not consult (it has
\* returned before) is left at its default.
TitlesOf(video_id) ==
    IF video_id = None THEN {None}
    ELSE IF video_id = "v1" THEN TitleResults
    ELSE {"Other", None}

CompLinksAfter(title) == IF title = None THEN {""} ELSE Links

CompTitlesOf(title, comparison_link) ==
    IF title = None \/ comparison_link = "" THEN {None}
    ELSE IF extract_video_id(comparison_link) = None THEN {None}
    ELSE {"Other", None}

StatsAfter(video_link, comparison_link, title, comp_title) ==
    IF add_video_error(video_link, comparison_link, title, comp_title,
                       [x \in AllIds |-> None])
         # None
    THEN {EmptyStats}
    ELSE FetchResults({extract_video_id(video_link)} \cup
                      (IF comparison_link = "" THEN {}
                       ELSE {extract_video_id(comparison_link)}))

WebStep ==
    \/ \E video_link \in Links :
       \E title \in TitlesOf(extract_video_id(video_link)) :
       \E comparison_link \in CompLinksAfter(title) :
       \E comp_title \in CompTitlesOf(title, comparison_link) :
       \E stats \in StatsAfter(video_link, comparison_link, title, comp_title) :
          AddVideo(video_link, comparison_link, title, comp_title, stats)
    \/ AddStore
    \/ \E video_id \in AllIds : StopTracking(video_id)
    \/ \E video_id \in AllIds : RemoveVideo(video_id)

BackgroundStep(t) ==
    \/ LoopTop(t)
    \/ \E result \in LatestResults : SouravCheck(t, result)
    \/ \E stats \in FetchResults({bg[t].new_id, default_comparison_id}) :
          SouravFetch(t, stats)
    \/ SouravStore(t)
    \/ Wake(t)
    \/ ReadRegistry(t)
    \/ \E stats \in FetchResults(bg[t].all_ids) : FetchStats(t, stats)
    \/ StoreStats(t)
    \/ Except(t)
    \/ \E ok \in BOOLEAN : Reinit(t, ok)
    \/ CooldownEnd(t)

ViewerStep(t) ==
    \/ ViewerLoop(t)
    \/ \E conn_ok \in BOOLEAN : ViewerRead(t, conn_ok)
    \/ \E stats \in FetchResults(bg[t].all_ids), raised \in BOOLEAN :
          ViewerFetch(t, stats, raised)
    \/ ViewerStore(t)
    \/ ViewerExcept(t)

ThreadStep(t) == BackgroundStep(t) \/ ViewerStep(t)

Next ==
    \/ Tick
    \/ DbFail
    \/ WebStep
    \/ \E t \in Threads : ThreadStep(t)

Spec == Init /\ [][Next]_vars

(***************************************************************************)
(* The scheduler on its own, over a longer time: the request handlers      *)
(* never touch a thread's position, its locals or the clock.  Each thread  *)
(* is a running OS thread: it takes its next step whenever it has one.     *)
(***************************************************************************)
LiveInit == InitAt(Start, LiveHorizon)

LiveNext ==
    \/ Tick
    \/ DbFail
    \/ \E t \in Threads : ThreadStep(t)

LiveSpec ==
    LiveInit /\ [][LiveNext]_vars /\ \A t \in Threads : WF_vars(ThreadStep(t))

(***************************************************************************)
(* The wait computation on its own: the loop top reached at any instant of *)
(* an hour, to the tick.                                                   *)
(***************************************************************************)
SchedHour == 14

SchedInit ==
    \E start \in (SchedHour * 3600 * TicksPerSec) ..
                 ((SchedHour + 1) * 3600 * TicksPerSec) :
        InitAt(start, (SchedHour + 2) * 3600 * TicksPerSec) /\ video_list = {}

SchedNext == \E t \in Threads : LoopTop(t) \/ ViewerLoop(t)

SchedSpec == SchedInit /\ [][SchedNext]_vars

(***************************************************************************)
(* The read surface: the videos a page lists, each with its rows.          *)
(***************************************************************************)
history_rows(vw, video_id) == {v \in vw : v.video_id = video_id}

\* index, lines 421-446: every row of video_list
index_videos(vl, vw) ==
    {[video_id |-> r.video_id, name |-> r.name, is_tracking |-> r.is_tracking,
      comparison_video_id |-> r.comparison_video_id,
      rows |-> history_rows(vw, r.video_id)] : r \in vl}

\* viewer, lines 195-225: the rows of video_list with is_tracking = 1
viewer_videos(vl, vw) ==
    {[video_id |-> r.video_id, name |-> r.name,
      rows |-> history_rows(vw, r.video_id)] : r \in {x \in vl : x.is_tracking}}

\* the ids the program's page lists
listed_ids(prog, vl, vw) ==
    IF prog = "app" THEN {e.video_id : e \in index_videos(vl, vw)}
    ELSE {e.video_id : e \in viewer_videos(vl, vw)}

Started == {t \in Threads : bg[t].pc # "unstarted"}

\* a thread is running a poll cycle from its registry read to its last
\* store_views call
InCycle(t) == bg[t].pc \in {"read", "fetch", "store"}

(***************************************************************************)
(* C1.  In every reachable state there is at most one views row per        *)
(* (video_id, timestamp).  Fails for app.py: views has no unique key on    *)
(* (video_id, timestamp) and store_views is a plain INSERT.                *)
(***************************************************************************)
C1_OneSamplePerTimestamp ==
    \A r1 \in views : \A r2 \in views :
        (r1.video_id = r2.video_id /\ r1.timestamp = r2.timestamp) => r1 = r2

(***************************************************************************)
(* C2.  The rows one poll cycle inserts all carry the same timestamp.      *)
(* Fails in both programs: store_views reads the clock in every call.      *)
(***************************************************************************)
C2_CycleSharesTimestamp ==
    \A t \in Threads : \A r1 \in views : \A r2 \in views :
        (r1.id \in bg[t].inserted /\ r2.id \in bg[t].inserted)
            => r1.timestamp = r2.timestamp

(***************************************************************************)
(* C3.  For every instant now, the wake time of the scheduler is the       *)
(* smallest 5-minute wall-clock boundary strictly greater than now.        *)
(* Holds of app.py (C3_AppWake); fails for app_viewer.py, whose sleep is   *)
(* never shorter than 10 seconds.                                          *)
(***************************************************************************)
IsBoundary(b) == MinuteOf(b) % PollMinutes = 0 /\ SecondsFracOf(b) = 0

NextBoundary(now) ==
    CHOOSE b \in (now + 1)..(now + PollSeconds * TicksPerSec) :
        /\ IsBoundary(b)
        /\ \A c \in (now + 1)..(b - 1) : ~IsBoundary(c)

C3_WakeIsNextBoundary ==
    \A t \in Threads :
        bg[t].pc = "sleeping" => bg[t].wake = NextBoundary(bg[t].now)

C3_AppWake ==
    \A t \in Threads :
        (program = "app" /\ bg[t].pc = "sleeping")
            => bg[t].wake = NextBoundary(bg[t].now)

(***************************************************************************)
(* C4.  At no time are two poll cycles in progress: at most one thread is  *)
(* between its registry read and its last store, and every started thread  *)
(* is in exactly one of sleeping, running a cycle, backing off (or at the   *)
(* loop top and its daily check).                                          *)
(***************************************************************************)
C4_SingleFlight ==
    /\ Cardinality({t \in Threads : InCycle(t)}) <= 1
    /\ \A t \in Started :
          bg[t].pc \in {"loop", "sourav_check", "sourav_fetch", "sourav_store",
                        "sleeping", "read", "fetch", "store",
                        "except", "reinit", "cooldown"}

C4_Witness ==
    \E t \in Threads : bg[t].pc = "store" /\ bg[t].inserted # {}

(***************************************************************************)
(* C5.  The scheduler loop never ends: after an error raised during a      *)
(* cycle the thread eventually sleeps until a boundary again and           *)
(* eventually starts another poll cycle.  Checked under LiveSpec, for      *)
(* every error that leaves the model's time window room for the back-off   *)
(* and one full interval.                                                  *)
(***************************************************************************)
RecoveryTicks == (ReinitDelay + Cooldown + PollSeconds + MaxTicks) * TicksPerSec

Raised(t) == bg[t].pc = "except" /\ clock + RecoveryTicks <= horizon

C5_Recovers ==
    \A t \in Threads :
        /\ Raised(t) ~> (bg[t].pc = "sleeping")
        /\ Raised(t) ~> (bg[t].pc = "read")
        /\ [](t \in start_background_tasks => bg[t].pc # "unstarted")

\* a cycle begins on the connection the failed init_db() of the handler left
C5_Witness ==
    \E t \in Threads : bg[t].pc = "read" /\ db_conn = "closed" /\ fails > 0

(***************************************************************************)
(* C6.  No poll cycle puts a Paused entity's id in the batch it sends to   *)
(* the source, and no poll cycle writes a row for an entity that is Paused *)
(* when the cycle reads the registry, also when the entity is the          *)
(* comparison_video_id of a tracked one.  Fails: the batch holds every     *)
(* comparison_video_id of a tracked row, whatever that id's own flag.      *)
(***************************************************************************)
paused_ids(vl) == {r.video_id : r \in {x \in vl : ~x.is_tracking}}

C6_PausedNotPolled ==
    [][\A t \in Threads :
          (bg[t].pc = "read" /\ bg'[t].pc \in {"fetch", "store"})
              => bg'[t].all_ids \cap paused_ids(video_list) = {}]_vars

(***************************************************************************)
(* C7.  A Paused entity keeps its registry row and its rows of views, and  *)
(* the read surface still returns it with them.  The frame of              *)
(* stop_tracking holds (C7_PauseFrame); the page of app_viewer.py lists    *)
(* only the rows with is_tracking = 1, so the claim fails there.           *)
(***************************************************************************)
C7_PausedStillListed ==
    \A id \in paused_ids(video_list) :
        history_rows(views, id) # {}
            => id \in listed_ids(program, video_list, views)

C7_PauseFrame ==
    [][\A id \in VideoIds :
          StopTracking(id) =>
              /\ views' = views
              /\ \A r \in video_list :
                    IF r.video_id = id
                    THEN [r EXCEPT !.is_tracking = FALSE] \in video_list'
                    ELSE r \in video_list'
              /\ Cardinality(video_list') = Cardinality(video_list)
              /\ \A e \in index_videos(video_list, views) :
                    \E f \in index_videos(video_list', views') :
                        f.video_id = e.video_id /\ f.rows = e.rows]_vars

(***************************************************************************)
(* C8.  Once remove_video(id) has completed, id is in no row of video_list *)
(* and views holds no row of id, in every later state until id is added    *)
(* again; stated of the rows the poll cycles insert.  Fails: a poll cycle  *)
(* that holds id in its batch (read before the removal, or id being a      *)
(* comparison_video_id) stores a row for it after the removal.             *)
(***************************************************************************)
C8_RemovedStaysGone ==
    \A id \in removed :
        /\ id \notin RegistryIds(video_list)
        /\ \A t \in Threads : \A v \in history_rows(views, id) :
              v.id \notin bg[t].inserted

(***************************************************************************)
(* C9.  remove_video(id) deletes only the video_list row of id and the     *)
(* views rows of id; every other row of both tables is unchanged.  Fails:  *)
(* lines 564-565 also delete the views rows of id's comparison video.      *)
(***************************************************************************)
C9_RemoveFrame ==
    [][\A id \in VideoIds :
          RemoveVideo(id) =>
              /\ video_list' = {r \in video_list : r.video_id # id}
              /\ views' = {v \in views : v.video_id # id}]_vars

(***************************************************************************)
(* C10.  add_video for an id already in video_list (tracked or not) leaves *)
(* exactly one row for the id, with the new name and is_tracking = TRUE,   *)
(* and the number of rows of video_list does not grow.                     *)
(***************************************************************************)
C10_AddExistingUpserts ==
    [][(web.pc = "idle" /\ web'.pc = "add_store" /\ web'.existed) =>
          LET id == Head(web'.todo)
              rows == {r \in video_list' : r.video_id = id}
          IN  /\ Cardinality(rows) = 1
              /\ \A r \in rows : r.name = web'.title /\ r.is_tracking
              /\ Cardinality(video_list') = Cardinality(video_list)
              /\ {r \in video_list' : r.video_id # id}
                   = {r \in video_list : r.video_id # id}]_vars

\* the add of an id whose row was Paused and carried another name
C10_Witness ==
    /\ web.pc = "add_store"
    /\ web.existed
    /\ \E r \in video_list :
          r.video_id = Head(web.todo) /\ r.is_tracking /\ r.name = web.title
    /\ flash = "Stopped tracking video successfully."

(***************************************************************************)
(* The derived metrics: process_view_gains of both programs and the loop   *)
(* of export.  A timestamp column holds strftime("%Y-%m-%d %H:%M:%S") of   *)
(* an instant and SQL compares the strings; a row's timestamp (whole       *)
(* seconds) stands for that string and StrKey gives its fields.            *)
(***************************************************************************)
StrKey(ts) == <<ts \div 86400, (ts \div 3600) % 24, (ts \div 60) % 60, ts % 60>>

\* string comparison of two timestamps: field by field, left to right
StrLe(a, b) ==
    LET x == StrKey(a)
        y == StrKey(b)
    IN  \/ x[1] < y[1]
        \/ x[1] = y[1] /\ x[2] < y[2]
        \/ x[1] = y[1] /\ x[2] = y[2] /\ x[3] < y[3]
        \/ x[1] = y[1] /\ x[2] = y[2] /\ x[3] = y[3] /\ x[4] <= y[4]

\* datetime.strptime of the string
strptime(ts) ==
    LET x == StrKey(ts) IN x[1] * 86400 + x[2] * 3600 + x[3] * 60 + x[4]

\* (timestamp_dt - timedelta(hours = 1)).strftime(...)
one_hour_ago(timestamp) == strptime(timestamp) - 3600

\* The row a query hands out among rows its ORDER BY does not tell apart is
\* the database's choice: db_pick says which.
DbPicks == {"low", "high"}

fetchone(rows, db_pick) ==
    IF rows = {} THEN {}
    ELSE {CHOOSE v \in rows : \A w \in rows :
              IF db_pick = "low" THEN v.id <= w.id ELSE v.id >= w.id}

\* SELECT ... WHERE video_id = %s AND date = %s AND timestamp <= %s
\* ORDER BY timestamp DESC LIMIT 1, without the upper limit on timestamp
select_latest_any(vw, video_id, date, bound, db_pick) ==
    LET found == {v \in vw : v.video_id = video_id /\ v.date = date}
    IN  fetchone({v \in found : \A w \in found : StrLe(w.timestamp, v.timestamp)},
                 db_pick)

\* the same query with timestamp < %s
select_latest_strict(vw, video_id, date, bound, db_pick) ==
    LET found == {v \in vw : v.video_id = video_id /\ v.date = date
                              /\ ~StrLe(bound, v.timestamp)}
    IN  fetchone({v \in found : \A w \in found : StrLe(w.timestamp, v.timestamp)},
                 db_pick)

\* SELECT ... WHERE video_id = %s AND date = %s AND timestamp <= %s
\* ORDER BY timestamp DESC LIMIT 1
select_latest(vw, video_id, date, bound, db_pick) ==
    LET found == {v \in vw : v.video_id = video_id /\ v.date = date
                              /\ StrLe(v.timestamp, bound)}
    IN  fetchone({v \in found : \A w \in found : StrLe(w.timestamp, v.timestamp)},
                 db_pick)

\* the query of the current comparison row, taking the latest row up to the
\* timestamp instead of the row at it
select_at_nearest(vw, video_id, date, timestamp, db_pick) ==
    select_latest(vw, video_id, date, timestamp, db_pick)

\* SELECT views FROM views WHERE video_id = %s AND date = %s AND timestamp = %s
select_at(vw, video_id, date, timestamp, db_pick) ==
    fetchone({v \in vw : v.video_id = video_id /\ v.date = date
                          /\ v.timestamp = timestamp}, db_pick)

\* the one row of a fetchone() that found one
TheRow(result) == CHOOSE v \in result : TRUE

Abs(n) == IF n < 0 THEN -n ELSE n

\* round(n / d, 2) in hundredths, d # 0.  Python rounds the float quotient
\* half to even; a quotient that ends in 5 thousandths is a float exactly
\* only when it is a multiple of 1/8, otherwise the float lies above or
\* below it (float_above) and is rounded that way.
round2(n, d, float_above) ==
    LET a == Abs(n) * 100
        b == Abs(d)
        q == a \div b
        r == a % b
        sign == IF (n < 0) = (d < 0) THEN 1 ELSE -1
        m == IF 2 * r < b THEN q
             ELSE IF 2 * r > b THEN q + 1
             ELSE IF (2 * q + 1) % 25 = 0
             THEN (IF q % 2 = 0 THEN q ELSE q + 1)
             ELSE (IF float_above THEN q + 1 ELSE q)
    IN  sign * m

\* ORDER BY timestamp ASC (export: ORDER BY date, timestamp)
RowBefore(a, b, db_pick) ==
    IF a.timestamp = b.timestamp
    THEN (IF db_pick = "low" THEN a.id < b.id ELSE a.id > b.id)
    ELSE IF a.date = b.date THEN StrLe(a.timestamp, b.timestamp)
    ELSE a.date < b.date

RECURSIVE fetchall(_, _)
fetchall(rows, db_pick) ==
    IF rows = {} THEN <<>>
    ELSE LET first == CHOOSE a \in rows :
                          \A b \in rows \ {a} : RowBefore(a, b, db_pick)
         IN  <<first>> \o fetchall(rows \ {first}, db_pick)

\* a ratio is {} (None) or holds its value in hundredths
NoRatio == {}

\* round(views / likes, 2) if likes > 0 else 0
view_like_ratio(nviews, nlikes, float_above) ==
    IF nlikes > 0 THEN round2(nviews, nlikes, float_above) ELSE 0

\* app.py lines 343-360 (and 362-373 for likes): column is "views" or "likes"
hourly_gain(vw, video_id, row, column, db_pick) ==
    LET result == select_latest(vw, video_id, row.date,
                                one_hour_ago(row.timestamp), db_pick)
    IN  IF result = {} THEN 0
        ELSE IF column = "views" THEN row.views - TheRow(result).views
        ELSE row.likes - TheRow(result).likes

\* the comparison ratio with the zero gain divided by as if it were 1
comp_view_ratio_unguarded(vw, comparison_video_id, row, view_hourly_gain, db_pick, float_above) ==
    LET comp_result == select_latest(vw, comparison_video_id, row.date,
                                     one_hour_ago(row.timestamp), db_pick)
        comp_current_result == select_at(vw, comparison_video_id, row.date,
                                         row.timestamp, db_pick)
    IN  IF comparison_video_id = None \/ comp_result = {} THEN NoRatio
        ELSE IF comp_current_result = {} \/ ~(TheRow(comp_current_result).views > 0)
        THEN NoRatio
        ELSE LET comp_view_hourly_gain ==
                     TheRow(comp_current_result).views - TheRow(comp_result).views
             IN  {round2(view_hourly_gain,
                         IF comp_view_hourly_gain = 0 THEN 1
                         ELSE comp_view_hourly_gain, float_above)}

\* app.py lines 375-402 (export: 625-646)
comp_view_ratio(vw, comparison_video_id, row, view_hourly_gain, db_pick, float_above) ==
    LET comp_result == select_latest(vw, comparison_video_id, row.date,
                                     one_hour_ago(row.timestamp), db_pick)
        comp_current_result == select_at(vw, comparison_video_id, row.date,
                                         row.timestamp, db_pick)
    IN  IF comparison_video_id = None \/ comp_result = {} THEN NoRatio
        ELSE IF comp_current_result = {} \/ ~(TheRow(comp_current_result).views > 0)
        THEN NoRatio
        ELSE LET comp_view_hourly_gain ==
                     TheRow(comp_current_result).views - TheRow(comp_result).views
             IN  IF comp_view_hourly_gain # 0
                 THEN {round2(view_hourly_gain, comp_view_hourly_gain, float_above)}
                 ELSE NoRatio

\* app_viewer.py lines 121-136
viewer_comp_ratio(vw, comparison_video_id, row, view_hourly, db_pick, float_above) ==
    LET prev == select_latest(vw, comparison_video_id, row.date,
                              one_hour_ago(row.timestamp), db_pick)
        curr == select_at(vw, comparison_video_id, row.date, row.timestamp,
                          db_pick)
    IN  IF comparison_video_id = None THEN NoRatio
        ELSE IF prev # {} /\ curr # {}
                  /\ TheRow(curr).views - TheRow(prev).views # 0
        THEN {round2(view_hourly, TheRow(curr).views - TheRow(prev).views,
                     float_above)}
        ELSE NoRatio

\* the tuple process_view_gains appends for a row, with the row's date
Processed(row, view_gain, like_gain, view_hourly_gain, like_hourly_gain, ratio, float_above) ==
    [date |-> row.date, timestamp |-> row.timestamp, views |-> row.views,
     likes |-> row.likes, view_gain |-> view_gain, like_gain |-> like_gain,
     view_hourly_gain |-> view_hourly_gain,
     view_like_ratio |-> view_like_ratio(row.views, row.likes, float_above),
     like_hourly_gain |-> like_hourly_gain, comp_view_ratio |-> ratio]

\* the gain since the previous row, taken across the change of date too
gain_since_previous_any(data_rows, i, column) ==
    IF i # 1
    THEN (IF column = "views" THEN data_rows[i].views - data_rows[i - 1].views
          ELSE data_rows[i].likes - data_rows[i - 1].likes)
    ELSE 0

\* app.py lines 332-339 (export: 595-596; app_viewer.py: 91-95)
gain_since_previous(data_rows, i, column) ==
    IF i # 1 /\ data_rows[i - 1].date = data_rows[i].date
    THEN (IF column = "views" THEN data_rows[i].views - data_rows[i - 1].views
          ELSE data_rows[i].likes - data_rows[i - 1].likes)
    ELSE 0

\* app.py lines 314-408
process_view_gains(vw, video_id, data_rows, comparison_video_id, db_pick, float_above) ==
    [i \in 1..Len(data_rows) |->
        LET row == data_rows[i]
            view_hourly_gain == hourly_gain(vw, video_id, row, "views", db_pick)
        IN  Processed(row, gain_since_previous(data_rows, i, "views"),
                      gain_since_previous(data_rows, i, "likes"),
                      view_hourly_gain,
                      hourly_gain(vw, video_id, row, "likes", db_pick),
                      comp_view_ratio(vw, comparison_video_id, row,
                                      view_hourly_gain, db_pick, float_above),
                      float_above)]

\* app_viewer.py lines 83-142
viewer_process_view_gains(vw, video_id, rows, comparison_video_id, db_pick, float_above) ==
    [i \in 1..Len(rows) |->
        LET row == rows[i]
            view_hourly == hourly_gain(vw, video_id, row, "views", db_pick)
        IN  Processed(row, gain_since_previous(rows, i, "views"),
                      gain_since_previous(rows, i, "likes"),
                      view_hourly,
                      hourly_gain(vw, video_id, row, "likes", db_pick),
                      viewer_comp_ratio(vw, comparison_video_id, row,
                                        view_hourly, db_pick, float_above),
                      float_above)]

\* the dates of a video's rows (SELECT DISTINCT date FROM views ...)
dates_of(vw, video_id) == {v.date : v \in history_rows(vw, video_id)}

\* index, lines 424-446: daily_data of every video, one entry per date
index_daily_data(vl, vw, db_pick, float_above) ==
    UNION {{[video_id |-> r.video_id,
             comparison_video_id |-> r.comparison_video_id,
             data |-> process_view_gains(
                          vw, r.video_id,
                          fetchall({v \in history_rows(vw, r.video_id) :
                                       v.date = d}, db_pick),
                          r.comparison_video_id, db_pick, float_above)] :
               d \in dates_of(vw, r.video_id)} : r \in vl}

\* viewer, lines 195-225: the same for the rows with is_tracking = 1
viewer_daily_data(vl, vw, db_pick, float_above) ==
    UNION {{[video_id |-> r.video_id,
             comparison_video_id |-> r.comparison_video_id,
             data |-> viewer_process_view_gains(
                          vw, r.video_id,
                          fetchall({v \in history_rows(vw, r.video_id) :
                                       v.date = d}, db_pick),
                          r.comparison_video_id, db_pick, float_above)] :
               d \in dates_of(vw, r.video_id)} : r \in {x \in vl : x.is_tracking}}

\* export, lines 590-659: one list over all the dates of the video
export_data(vl, vw, video_id, db_pick, float_above) ==
    {[video_id |-> r.video_id, comparison_video_id |-> r.comparison_video_id,
      data |-> LET rows == fetchall(history_rows(vw, r.video_id), db_pick)
               IN  [i \in 1..Len(rows) |->
                      LET row == rows[i]
                          view_hourly_gain ==
                              hourly_gain(vw, r.video_id, row, "views", db_pick)
                      IN  Processed(row,
                                    gain_since_previous(rows, i, "views"),
                                    gain_since_previous(rows, i, "likes"),
                                    view_hourly_gain,
                                    hourly_gain(vw, r.video_id, row, "likes",
                                                db_pick),
                                    comp_view_ratio(vw, r.comparison_video_id,
                                                    row, view_hourly_gain,
                                                    db_pick, float_above),
                                    float_above)]] :
        r \in {x \in vl : x.video_id = video_id}}

(***************************************************************************)
(* The read routes over stores of a few rows: the clock steps between the  *)
(* store_views calls, and a GET renders the page from the store.           *)
(***************************************************************************)
MaxGainTicks == 2
MaxGainStores == 2

\* 10:00:00 and 23:59:59 of day 0, in seconds
GainStarts == {10 * 3600, 23 * 3600 + 59 * 60 + 59}

\* the steps of the clock between two stores, in seconds
GainSteps == {1, 3599, 3600}

\* viewCount and likeCount of an item (0 when the field is missing)
GainStats ==
    {[views |-> 0, likes |-> 0], [views |-> 5, likes |-> 4],
     [views |-> 45, likes |-> 4]}

\* v1 is compared with v2
GainRegistry ==
    {VideoRow("v1", "Other", TRUE, "v2"), VideoRow("v2", "Other", TRUE, None)}

\* the response the route renders
Page(videos) ==
    [pc |-> "page", title |-> None, todo |-> <<>>, stats |-> EmptyStats,
     existed |-> FALSE, videos |-> videos]

GainInit ==
    /\ program \in {"app", "app_viewer"}
    /\ clock \in {start * TicksPerSec : start \in GainStarts}
    /\ horizon = clock + 2 * 3600 * TicksPerSec
    /\ video_list = GainRegistry
    /\ views \in {{}} \cup {{ViewRow(-1, "v1", clock, s1), ViewRow(0, "v2", clock, s2)} :
                              s1 \in {x \in GainStats : x.likes > 0},
                              s2 \in {x \in GainStats : x.likes > 0}}
    /\ views_id_seq = 1
    /\ db_conn = "open"
    /\ bg = [t \in Threads |-> BgLocals("unstarted", NoCheck)]
    /\ web = WebIdle
    /\ flash = None
    /\ ticks = 0
    /\ fails = 0
    /\ requests = 0
    /\ removed = {}

GainTick(d) ==
    /\ ticks < MaxGainTicks
    /\ clock' = clock + d * TicksPerSec
    /\ ticks' = ticks + 1
    /\ web' = WebIdle
    /\ UNCHANGED <<program, video_list, views, views_id_seq, db_conn, bg,
                   flash, fails, removed, requests, horizon>>

\* a store_views call of either program
GainStore(id, stats) ==
    /\ views_id_seq <= MaxGainStores
    /\ views' = IF program = "app"
                THEN store_views_rows(views, views_id_seq, db_conn, id, stats, clock)
                ELSE viewer_store_views_rows(views, views_id_seq, id, stats, clock)
    /\ views_id_seq' = IF program = "app"
                       THEN store_views_seq(views_id_seq, db_conn)
                       ELSE viewer_store_views_seq(views_id_seq)
    /\ web' = WebIdle
    /\ UNCHANGED <<program, clock, video_list, db_conn, bg, flash, ticks, fails,
                   removed, requests, horizon>>

\* GET / of app.py
Index(db_pick, float_above) ==
    /\ program = "app"
    /\ web.pc = "idle"
    /\ web' = Page(index_daily_data(video_list, views, db_pick, float_above))
    /\ UNCHANGED <<program, clock, video_list, views, views_id_seq, db_conn, bg,
                   flash, ticks, fails, removed, requests, horizon>>

\* GET / of app_viewer.py
Viewer(db_pick, float_above) ==
    /\ program = "app_viewer"
    /\ web.pc = "idle"
    /\ web' = Page(viewer_daily_data(video_list, views, db_pick, float_above))
    /\ UNCHANGED <<program, clock, video_list, views, views_id_seq, db_conn, bg,
                   flash, ticks, fails, removed, requests, horizon>>

\* Export that deletes the rows it has exported
Export_archiving(video_id, db_pick, float_above) ==
    /\ program = "app"
    /\ web.pc = "idle"
    /\ web' = Page(export_data(video_list, views, video_id, db_pick, float_above))
    /\ views' = {v \in views : v.video_id # video_id}
    /\ UNCHANGED <<program, clock, video_list, views_id_seq, db_conn, bg,
                   flash, ticks, fails, removed, requests, horizon>>

\* GET /export/<video_id> of app.py
Export(video_id, db_pick, float_above) ==
    /\ program = "app"
    /\ web.pc = "idle"
    /\ web' = Page(export_data(video_list, views, video_id, db_pick, float_above))
    /\ UNCHANGED <<program, clock, video_list, views, views_id_seq, db_conn, bg,
                   flash, ticks, fails, removed, requests, horizon>>

GainNext ==
    \/ \E d \in GainSteps : GainTick(d)
    \/ \E id \in VideoIds, stats \in GainStats : GainStore(id, stats)
    \/ \E db_pick \in DbPicks, float_above \in BOOLEAN :
          \/ Index(db_pick, float_above)
          \/ Viewer(db_pick, float_above)
          \/ \E video_id \in VideoIds : Export(video_id, db_pick, float_above)

GainSpec == GainInit /\ [][GainNext]_vars

(***************************************************************************)
(* The claims on the derived metrics, stated of every row of a rendered    *)
(* page against the rows of views, with timestamps as numbers of seconds.  *)
(***************************************************************************)
DayOf(ts) == ts \div 86400

\* the rows of video_id on the day of instant ts with a timestamp of at most
\* limit
SamplesUpTo(video_id, ts, limit) ==
    {v \in views : v.video_id = video_id /\ DayOf(v.timestamp) = DayOf(ts)
                   /\ v.timestamp <= limit}

Latest(rows) == {v \in rows : \A w \in rows : w.timestamp <= v.timestamp}

\* the rows of the page: an entry and a position in its data
PageRows ==
    IF web.pc = "page"
    THEN {<<e, i>> : e \in web.videos, i \in 1..3 + MaxGainStores}
    ELSE {}

OnPage(x) == x[2] <= Len(x[1].data)

(***************************************************************************)
(* C11.  trailing_hour_gain (view_hourly_gain) of a row is its views minus *)
(* the views of the latest row of the same video and date at most one hour *)
(* before it, and 0 when there is no such row.                             *)
(***************************************************************************)
C11_TrailingHourGain ==
    \A x \in PageRows : OnPage(x) =>
        LET row == x[1].data[x[2]]
            base == Latest(SamplesUpTo(x[1].video_id, row.timestamp,
                                       row.timestamp - 3600))
        IN  IF base = {} THEN row.view_hourly_gain = 0
            ELSE \E j \in base : row.view_hourly_gain = row.views - j.views

\* a row an hour after the base with another row of the video in between
C11_Witness ==
    \E x \in PageRows :
        /\ OnPage(x)
        /\ LET row == x[1].data[x[2]]
           IN  /\ row.view_hourly_gain > 0
               /\ \E mid \in SamplesUpTo(x[1].video_id, row.timestamp,
                                         row.timestamp - 1) :
                     /\ mid.timestamp > row.timestamp - 3600
                     /\ row.views - mid.views # row.view_hourly_gain

(***************************************************************************)
(* C12.  intra_day_gain (view_gain) of a row is its views minus the views  *)
(* of the row before it when that row has the same date, and 0 for the     *)
(* first row and for the first row of each date.                           *)
(***************************************************************************)
C12_IntraDayGain ==
    \A x \in PageRows : OnPage(x) =>
        LET data == x[1].data
            i == x[2]
            row == data[i]
            before == SamplesUpTo(x[1].video_id, row.timestamp,
                                  row.timestamp - 1)
        IN  IF i > 1 /\ DayOf(data[i - 1].timestamp) = DayOf(row.timestamp)
            THEN /\ row.view_gain = row.views - data[i - 1].views
                 /\ data[i - 1].timestamp <= row.timestamp
                 /\ \A v \in before : v.timestamp <= data[i - 1].timestamp
            ELSE /\ row.view_gain = 0
                 /\ before = {}

\* the first row of a day one second after the last row of the day before,
\* with other views
C12_Witness ==
    \E x \in PageRows :
        /\ OnPage(x)
        /\ x[2] > 1
        /\ LET row == x[1].data[x[2]]
               prev == x[1].data[x[2] - 1]
           IN  /\ DayOf(prev.timestamp) # DayOf(row.timestamp)
               /\ row.timestamp - prev.timestamp = 1
               /\ row.views # prev.views
               /\ row.view_gain = 0

\* the comparison rows a row's ratio is about: the latest of the date at most
\* one hour before it (compBase) and the ones at its timestamp (compCurrent)
CompBase(x) ==
    LET row == x[1].data[x[2]]
    IN  Latest(SamplesUpTo(x[1].comparison_video_id, row.timestamp,
                           row.timestamp - 3600))

CompCurrent(x) ==
    LET row == x[1].data[x[2]]
    IN  {v \in SamplesUpTo(x[1].comparison_video_id, row.timestamp, row.timestamp) :
            v.timestamp = row.timestamp}

\* h hundredths is n / d rounded to 2 places: no hundredth is nearer
Rounded(h, n, d) == 2 * Abs(h * d - 100 * n) <= Abs(d)

(***************************************************************************)
(* C13.  When the comparison video has a compBase and a compCurrent row    *)
(* and their views differ, comparison_ratio is present and equals          *)
(* view_hourly_gain / (compCurrent.views - compBase.views) rounded to 2    *)
(* places, also when compCurrent.views is 0.  Fails in app.py, which       *)
(* takes a compCurrent row with views = 0 for no row.                      *)
(***************************************************************************)
C13_RatioPresent ==
    \A x \in PageRows : (OnPage(x) /\ x[1].comparison_video_id # None) =>
        LET row == x[1].data[x[2]]
        IN  (/\ CompBase(x) # {}
             /\ CompCurrent(x) # {}
             /\ \A b \in CompBase(x), c \in CompCurrent(x) : c.views - b.views # 0)
            => /\ row.comp_view_ratio # NoRatio
               /\ \A h \in row.comp_view_ratio :
                     \E b \in CompBase(x), c \in CompCurrent(x) :
                         Rounded(h, row.view_hourly_gain, c.views - b.views)

\* the same for compCurrent.views > 0, which both programs satisfy
C13_RatioOfPositive ==
    \A x \in PageRows : (OnPage(x) /\ x[1].comparison_video_id # None) =>
        LET row == x[1].data[x[2]]
        IN  (/\ CompBase(x) # {}
             /\ CompCurrent(x) # {}
             /\ \A c \in CompCurrent(x) : c.views > 0
             /\ \A b \in CompBase(x), c \in CompCurrent(x) : c.views - b.views # 0)
            => /\ row.comp_view_ratio # NoRatio
               /\ \A h \in row.comp_view_ratio :
                     \E b \in CompBase(x), c \in CompCurrent(x) :
                         Rounded(h, row.view_hourly_gain, c.views - b.views)

(***************************************************************************)
(* C14.  When the comparison video has no row at exactly the row's         *)
(* timestamp, comparison_ratio is absent, whatever other rows it has on    *)
(* that date and whatever the row's view_hourly_gain.                      *)
(***************************************************************************)
C14_NoRatioWithoutCurrent ==
    \A x \in PageRows : (OnPage(x) /\ x[1].comparison_video_id # None) =>
        (CompCurrent(x) = {} => x[1].data[x[2]].comp_view_ratio = NoRatio)

\* the comparison video has a compBase and a later row with other views, none
\* at the timestamp, and the row's own gain is defined
C14_Witness ==
    \E x \in PageRows :
        /\ OnPage(x)
        /\ x[1].comparison_video_id # None
        /\ CompCurrent(x) = {}
        /\ CompBase(x) # {}
        /\ LET row == x[1].data[x[2]]
           IN  /\ row.view_hourly_gain # 0
               /\ \E v \in SamplesUpTo(x[1].comparison_video_id, row.timestamp,
                                       row.timestamp) :
                     \A b \in CompBase(x) :
                         v.timestamp > b.timestamp /\ v.views # b.views

(***************************************************************************)
(* C15.  When compCurrent.views - compBase.views is 0, comparison_ratio is *)
(* absent, and the page still holds a row for every row of views of the    *)
(* videos it lists.                                                        *)
(***************************************************************************)
C15_ZeroDenominator ==
    /\ \A x \in PageRows : (OnPage(x) /\ x[1].comparison_video_id # None) =>
          ((/\ CompBase(x) # {}
            /\ CompCurrent(x) # {}
            /\ \A b \in CompBase(x), c \in CompCurrent(x) : c.views - b.views = 0)
           => x[1].data[x[2]].comp_view_ratio = NoRatio)
    /\ web.pc = "page" =>
          \A e \in web.videos : \A v \in history_rows(views, e.video_id) :
              \E f \in web.videos : \E i \in 1..Len(f.data) :
                  /\ f.video_id = e.video_id
                  /\ f.data[i].timestamp = v.timestamp
                  /\ f.data[i].views = v.views

\* a row with a gain of its own whose comparison video did not move
C15_Witness ==
    \E x \in PageRows :
        /\ OnPage(x)
        /\ x[1].comparison_video_id # None
        /\ x[1].data[x[2]].view_hourly_gain # 0
        /\ x[1].data[x[2]].comp_view_ratio = NoRatio
        /\ \E b \in CompBase(x), c \in CompCurrent(x) :
              c.views = b.views /\ c.views > 0

(***************************************************************************)
(* C16.  The metrics of a row at timestamp T depend only on the rows with  *)
(* timestamp <= T: the row a page shows is a row the same program would    *)
(* show for the store without the rows later than T, so adding rows later  *)
(* than T to a store changes no metric of the row at T.                    *)
(***************************************************************************)
\* the positions of a row in a list of fetched rows
PositionsOf(row, rows) ==
    {n \in 1..Len(rows) : /\ rows[n].timestamp = row.timestamp
                          /\ rows[n].views = row.views
                          /\ rows[n].likes = row.likes}

\* the metrics the program computes for a row from the store vw
MetricsFrom(vw, video_id, comparison_video_id, row) ==
    UNION {LET rows == fetchall(history_rows(vw, video_id), db_pick)
               hourly == hourly_gain(vw, video_id, row, "views", db_pick)
           IN  {[view_gain |-> gain_since_previous(rows, k, "views"),
                 view_hourly_gain |-> hourly,
                 comp_view_ratio |->
                     IF program = "app"
                     THEN comp_view_ratio(vw, comparison_video_id, row, hourly,
                                          db_pick, float_above)
                     ELSE viewer_comp_ratio(vw, comparison_video_id, row, hourly,
                                            db_pick, float_above)] :
                   k \in PositionsOf(row, rows), float_above \in BOOLEAN} :
              db_pick \in DbPicks}

C16_NoLookAhead ==
    \A x \in PageRows : OnPage(x) =>
        LET row == x[1].data[x[2]]
        IN  [view_gain |-> row.view_gain,
             view_hourly_gain |-> row.view_hourly_gain,
             comp_view_ratio |-> row.comp_view_ratio]
                \in MetricsFrom({v \in views : v.timestamp <= row.timestamp},
                                x[1].video_id, x[1].comparison_video_id, row)

\* a row with a gain of its own and a later row, of other views, of its
\* video or of the comparison video on the same date
C16_Witness ==
    \E x \in PageRows :
        /\ OnPage(x)
        /\ x[1].comparison_video_id # None
        /\ LET row == x[1].data[x[2]]
           IN  /\ row.view_hourly_gain # 0
               /\ \E v \in views :
                     /\ v.video_id \in {x[1].video_id, x[1].comparison_video_id}
                     /\ v.date = row.date
                     /\ v.timestamp > row.timestamp
                     /\ v.views # row.views

(***************************************************************************)
(* C17.  remove_video for an id that has no row in video_list reports a    *)
(* result other than success and changes neither video_list nor views.     *)
(* Fails: the handler has no such branch; it runs its DELETEs and flashes  *)
(* the success message.                                                    *)
(***************************************************************************)
C17_RemoveUnknown ==
    [][\A id \in VideoIds :
          (RemoveVideo(id) /\ id \notin RegistryIds(video_list)) =>
              /\ flash' # "Video removed successfully."
              /\ video_list' = video_list
              /\ views' = views]_vars

(***************************************************************************)
(* C18.  In a poll cycle for which the source resolves only the subset S   *)
(* of the batch, the cycle stores for exactly the ids of the batch in S:   *)
(* each of them gets a row of the instant of its store_views call (when    *)
(* the database takes the INSERT), no other id gets a row, no row stored   *)
(* before is changed, and the unresolved ids do not send the thread into   *)
(* its except handler.                                                     *)
(***************************************************************************)
\* the database takes an INSERT of the program now
Insertable ==
    IF program = "app" THEN insert_ok(db_conn, views_id_seq)
    ELSE views_id_seq <= MaxRows

\* the fetch step of a cycle whose source call returned stats (it did not
\* raise): no row is written, the thread does not go to its handler, and
\* the calls left to make are those of the batch ids in stats
C18_FetchStep(t) ==
    \A stats \in FetchResults(bg[t].all_ids) :
        (FetchStats(t, stats) \/ ViewerFetch(t, stats, FALSE)) =>
            LET S == bg[t].all_ids \cap DOMAIN stats
            IN  /\ bg'[t].pc = IF S = {} THEN "loop" ELSE "store"
                /\ S # {} => /\ SeqRange(bg'[t].todo) = S
                             /\ bg'[t].stats_dict = stats
                /\ views' = views

\* a store step of the cycle: rows are only added, at most one, for the id
\* at the head of the calls left, which the source resolved; when the
\* database takes the INSERT that id has a row of this instant that this
\* cycle wrote
C18_StoreStep(t) ==
    (StoreStats(t) \/ ViewerStore(t)) =>
        LET id == Head(bg[t].todo)
        IN  /\ id \in bg[t].all_ids \cap DOMAIN bg[t].stats_dict
            /\ views \subseteq views'
            /\ Cardinality(views' \ views) <= 1
            /\ \A v \in views' \ views : v.video_id = id
            /\ Insertable =>
                  \E v \in views' :
                      /\ v.video_id = id
                      /\ v.timestamp = Timestamp(clock)
                      /\ v.id \in bg'[t].inserted
                      /\ v.views = bg[t].stats_dict[id].views
            /\ SeqRange(bg[t].todo) \ {id} \subseteq
                  IF bg'[t].pc = "store" THEN SeqRange(bg'[t].todo) ELSE {}

C18_PartialFetch ==
    [][\A t \in Threads : C18_FetchStep(t) /\ C18_StoreStep(t)]_vars

\* in the middle of a cycle whose source left an id of the batch unresolved,
\* with a row of the cycle stored and another call to make
C18_Witness ==
    \E t \in Threads :
        /\ bg[t].pc = "store"
        /\ bg[t].inserted # {}
        /\ bg[t].all_ids \ DOMAIN bg[t].stats_dict # {}

(***************************************************************************)
(* C19.  Every sleep of the loop ends at the 5-minute boundary that        *)
(* follows the instant the loop iteration began, whatever the iteration    *)
(* did before it slept.  Stated here for app.py alone; it fails there:     *)
(* the wait is computed from the instant read at the top of the iteration  *)
(* and is slept from the later instant at which the daily check has ended. *)
(* (For app_viewer.py the sleep of at least 10 seconds of C3 breaks it as  *)
(* well.)                                                                  *)
(***************************************************************************)
C19_SleepEndsAtBoundary ==
    \A t \in Threads :
        (program = "app" /\ bg[t].pc = "sleeping") =>
            /\ IsBoundary(bg[t].wake)
            /\ bg[t].wake = NextBoundary(bg[t].now)

(***************************************************************************)
(* A poll cycle that outlasts the period: the thread's blocking call (the  *)
(* request of fetch_views, the INSERT of store_views) returns after more   *)
(* than five minutes.                                                      *)
(***************************************************************************)
SlowCall(t) ==
    /\ bg[t].pc \in {"fetch", "store"}
    /\ clock + (PollSeconds + 1) * TicksPerSec <= horizon
    /\ clock' = clock + (PollSeconds + 1) * TicksPerSec
    /\ UNCHANGED <<program, video_list, views, views_id_seq, db_conn, bg, web,
                   flash, ticks, fails, removed, requests, horizon>>

SlowNext == LiveNext \/ \E t \in Threads : SlowCall(t)

SlowSpec == LiveInit /\ [][SlowNext]_vars

(***************************************************************************)
(* C20.  When a poll cycle ends after a boundary later than its own has    *)
(* passed, the next cycle begins at once: the loop does not sleep to a     *)
(* further boundary.  Fails: both loops always sleep to the boundary that  *)
(* follows the instant of the loop top.                                    *)
(***************************************************************************)
\* a row of the thread's last cycle was stored before a boundary that has
\* passed
Overran(t) ==
    \E v \in views :
        /\ v.id \in bg[t].inserted
        /\ \E s \in (v.timestamp + 1)..Timestamp(clock) : s % PollSeconds = 0

C20_CatchUp ==
    [][\A t \in Threads :
          (bg[t].pc = "loop" /\ bg'[t].pc = "sleeping" /\ Overran(t))
              => bg'[t].wake <= clock]_vars

(***************************************************************************)
(* C21.  A store_views call of a poll cycle whose INSERT the database      *)
(* refuses sends the thread to its except handler (the backoff); the       *)
(* cycle does not go on to its next store_views call or to the loop top.   *)
(* Fails: store_views catches and logs every exception itself.             *)
(***************************************************************************)
C21_StoreFailureBacksOff ==
    [][\A t \in Threads :
          ((StoreStats(t) \/ ViewerStore(t)) /\ ~Insertable)
              => bg'[t].pc = "except"]_vars

(***************************************************************************)
(* C22.  A poll cycle calls store_views once for each id the source        *)
(* resolved and writes one row for it: the calls left to make name no id   *)
(* twice and no id the cycle has written, and no two rows the cycle wrote  *)
(* are of one video.  Fails: an id that is a tracked video and a           *)
(* comparison video (or the comparison video of two rows) is in both       *)
(* for-loops, or twice in the second.                                      *)
(***************************************************************************)
C22_WrittenOnce ==
    \A t \in Threads :
        /\ bg[t].pc = "store" =>
              /\ Cardinality(SeqRange(bg[t].todo)) = Len(bg[t].todo)
              /\ \A v \in views :
                    v.id \in bg[t].inserted => v.video_id \notin SeqRange(bg[t].todo)
        /\ \A r1, r2 \in views :
              (r1.id \in bg[t].inserted /\ r2.id \in bg[t].inserted
                 /\ r1.video_id = r2.video_id) => r1 = r2

(***************************************************************************)
(* C23.  No row of video_list has comparison_video_id equal to its own     *)
(* video_id.  Fails: add_video never compares the two ids.                 *)
(***************************************************************************)
C23_NoSelfReference ==
    \A r \in video_list : r.comparison_video_id # r.video_id

(***************************************************************************)
(* C24.  A thread that has entered its except handler sleeps the cooldown  *)
(* of 60 seconds, counted from there, and then is at the loop top again:   *)
(* the handler's next step is the cooldown sleep, ending Cooldown seconds  *)
(* after the handler began.  Fails for app.py, whose handler first sleeps  *)
(* 10 seconds and calls init_db().                                         *)
(***************************************************************************)
C24_CooldownOnly ==
    [][\A t \in Threads :
          (bg[t].pc = "except" /\ bg'[t] # bg[t]) =>
              /\ bg'[t].pc = "cooldown"
              /\ bg'[t].wake = clock + Cooldown * TicksPerSec]_vars

(***************************************************************************)
(* C25.  Rendering a page (index, viewer) or an export runs SELECTs only:  *)
(* the step that answers the request with its page leaves views and        *)
(* video_list as they were.                                                *)
(***************************************************************************)
C25_ReadOnly ==
    [][(web.pc = "idle" /\ web'.pc = "page")
          => /\ views' = views
             /\ video_list' = video_list]_vars

\* a page with a row whose gain was computed from two rows of views
C25_Witness ==
    /\ views # {}
    /\ \E x \in PageRows : OnPage(x) /\ x[1].data[x[2]].view_gain # 0

(***************************************************************************)
(* C26.  An add_video request that fails validation (no link, a link with  *)
(* no video id, no title, a comparison link with no video id or no title,  *)
(* statistics missing for the video or for the comparison video) flashes   *)
(* an error and leaves video_list and views unchanged, with no store_views *)
(* call to follow.                                                         *)
(***************************************************************************)
AddInvalid(video_link, comparison_link, title, comp_title, stats) ==
    \/ video_link = ""
    \/ extract_video_id(video_link) = None
    \/ title = None
    \/ /\ comparison_link # ""
       /\ \/ extract_video_id(comparison_link) = None
          \/ comp_title = None
          \/ extract_video_id(comparison_link) \notin DOMAIN stats
    \/ extract_video_id(video_link) \notin DOMAIN stats

\* the step of a request changes a table, leaves a store_views call to
\* make, or flashes no error
C26_Effect ==
    /\ requests' # requests
    /\ \/ video_list' # video_list
       \/ views' # views
       \/ views_id_seq' # views_id_seq
       \/ web' # WebIdle
       \/ flash' \in {None, "Video added successfully."}

\* no step with such an effect is the step of an invalid add_video request
C26_FailedAddFrame ==
    [][C26_Effect =>
         ~ \E video_link \in Links :
           \E title \in TitlesOf(extract_video_id(video_link)) :
           \E comparison_link \in CompLinksAfter(title) :
           \E comp_title \in CompTitlesOf(title, comparison_link) :
           \E stats \in StatsAfter(video_link, comparison_link, title, comp_title) :
              /\ AddInvalid(video_link, comparison_link, title, comp_title, stats)
              /\ AddVideo(video_link, comparison_link, title, comp_title, stats)]_vars

\* a request refused at the last check, with a registry and a store that
\* hold rows
C26_Witness ==
    /\ flash = "Unable to fetch comparison video data. Check the link or API key."
    /\ web = WebIdle
    /\ video_list # {}
    /\ views # {}

(***************************************************************************)
(* C27.  Every store_views call of an add_video request, which always ends *)
(* with the success message, has written its row: the step adds a row of   *)
(* the id in turn to views, whatever the background thread has done to the *)
(* global connection.  (The row of video_list is committed before, on the  *)
(* request's own connection.)  Fails: store_views swallows the failure of  *)
(* its INSERT and add_video flashes success all the same.                  *)
(***************************************************************************)
C27_AddPersists ==
    [][AddStore =>
          \E v \in views' \ views :
              /\ v.video_id = Head(web.todo)
              /\ v.timestamp = Timestamp(clock)]_vars

(***************************************************************************)
(* C28.  Every row of an export carries the gains and the ratio that the   *)
(* index page shows for the same sample, computed from the same store:     *)
(* the row of the export is a row of the index page's data, whichever way  *)
(* the database answers the queries of the two requests.  Fails on the     *)
(* stores of C1: two rows of one video and one timestamp come back in an   *)
(* order that ORDER BY leaves open, and the two routes run different       *)
(* queries.                                                                *)
(***************************************************************************)
\* the rows the index page shows for a video
IndexRows(video_id, db_pick, float_above) ==
    UNION {SeqRange(e.data) :
             e \in {x \in index_daily_data(video_list, views, db_pick, float_above) :
                       x.video_id = video_id}}

C28_ExportAsIndex ==
    [][\A video_id \in VideoIds, db_pick \in DbPicks, float_above \in BOOLEAN :
          Export(video_id, db_pick, float_above) =>
              \A index_pick \in DbPicks :
              \A e \in web'.videos :
                  SeqRange(e.data) \subseteq IndexRows(video_id, index_pick, float_above)]_vars

\* the same with the database answering both requests alike
ExportAsIndexSameAnswers ==
    [][\A video_id \in VideoIds, db_pick \in DbPicks, float_above \in BOOLEAN :
          Export(video_id, db_pick, float_above) =>
              \A e \in web'.videos :
                  SeqRange(e.data) = IndexRows(video_id, db_pick, float_above)]_vars

(***************************************************************************)
(* C29.  The daily check (lines 219-257: the lookup of the channel's       *)
(* latest video and what follows it) runs at most once on a calendar day:  *)
(* once the thread has left the check of a day, it is not in the check     *)
(* again on that day, whatever cycles and backoffs lie between.            *)
(***************************************************************************)
InCheck(t) == bg[t].pc \in {"sourav_check", "sourav_fetch", "sourav_store"}

\* the calendar days of the time window
Days == DateOf(Start)..DateOf(LiveHorizon)

C29_DailyCheckOnce ==
    \A t \in Threads : \A d \in Days :
        []((InCheck(t) /\ DateOf(clock) = d) =>
              [](~InCheck(t) => [](InCheck(t) => DateOf(clock) # d)))

\* the day's check was made, and the thread is in the backoff of a later
\* error, about to reach the loop top again
C29_Witness ==
    \E t \in Threads :
        /\ bg[t].pc = "cooldown"
        /\ bg[t].last_sourav_check # NoCheck
        /\ DateOf(bg[t].last_sourav_check) = DateOf(clock)

====
